---------------------------- MODULE Spec2Model ----------------------------
(***************************************************************************)
(* reminder-cli: the reminder store (src/manageReminders.js), the command  *)
(* interface (src/index.js) and the notifier                               *)
(* (src/reminderSoundNotification.js).                                     *)
(*                                                                         *)
(* Every invocation of the tool is one Node process.  A process runs one   *)
(* command; the command's handler is cut at its awaits on the storage      *)
(* file, so that the handlers of two processes interleave exactly where    *)
(* the event loop lets them.  Strings are sequences of one-character       *)
(* strings; time is in milliseconds since an arbitrary origin.             *)
(***************************************************************************)
EXTENDS Integers, Sequences, FiniteSets, TLC

VARIABLES file, now, proc

vars == <<file, now, proc>>

(***************************************************************************)
(* Bounds of the model.                                                    *)
(***************************************************************************)
MaxStore == 2
MaxNow == 0
MaxSchedStore == 1

Procs == {"p1", "p2"}

(***************************************************************************)
(* Strings.                                                                *)
(***************************************************************************)
IsSpace(c) == c = " "

RECURSIVE TrimStart(_)
TrimStart(s) ==
  IF s = <<>> THEN <<>>
  ELSE IF IsSpace(Head(s)) THEN TrimStart(Tail(s)) ELSE s

RECURSIVE TrimEnd(_)
TrimEnd(s) ==
  IF s = <<>> THEN <<>>
  ELSE IF IsSpace(s[Len(s)]) THEN TrimEnd(SubSeq(s, 1, Len(s) - 1)) ELSE s

\* a handler that forgets to trim
NoTrim(s) == s

\* String.prototype.trim
Trim(s) == TrimEnd(TrimStart(s))

\* timeStr.slice(0, -1)
SliceInit(s) == IF s = <<>> THEN <<>> ELSE SubSeq(s, 1, Len(s) - 1)

\* timeStr.slice(-1)
SliceLast(s) == IF s = <<>> THEN <<>> ELSE <<s[Len(s)]>>

LowerOf(c) ==
  CASE c = "S" -> "s"
    [] c = "M" -> "m"
    [] c = "H" -> "h"
    [] c = "X" -> "x"
    [] OTHER -> c

\* String.prototype.toLowerCase
ToLowerCase(s) == [i \in 1..Len(s) |-> LowerOf(s[i])]

DecDigits == {"0", "1", "2", "3", "4", "5", "6", "7", "8", "9"}

DigitVal(c) ==
  CASE c = "0" -> 0 [] c = "1" -> 1 [] c = "2" -> 2 [] c = "3" -> 3
    [] c = "4" -> 4 [] c = "5" -> 5 [] c = "6" -> 6 [] c = "7" -> 7
    [] c = "8" -> 8 [] c = "9" -> 9 [] OTHER -> 0

\* the longest prefix of s made of decimal digits
RECURSIVE DigitPrefix(_)
DigitPrefix(s) ==
  IF s = <<>> \/ Head(s) \notin DecDigits THEN <<>>
  ELSE <<Head(s)>> \o DigitPrefix(Tail(s))

RECURSIVE DigitsValue(_, _)
DigitsValue(ds, acc) ==
  IF ds = <<>> THEN acc
  ELSE DigitsValue(Tail(ds), acc * 10 + DigitVal(Head(ds)))

NaN == [nan |-> TRUE, v |-> 0]
Num(n) == [nan |-> FALSE, v |-> n]

\* parseInt(s) with no radix: leading white space is skipped, one sign is
\* read, then the longest run of digits; no digit at all gives NaN.  A "0x"
\* prefix selects radix 16; the strings of this model carry no hexadecimal
\* letter, so after "0x" the digits are read in base 16 by HexDigitsValue.
RECURSIVE HexDigitsValue(_, _)
HexDigitsValue(ds, acc) ==
  IF ds = <<>> THEN acc
  ELSE HexDigitsValue(Tail(ds), acc * 16 + DigitVal(Head(ds)))

ParseInt(s) ==
  LET t == TrimStart(s)
      neg == t # <<>> /\ Head(t) = "-"
      signed == t # <<>> /\ Head(t) \in {"-", "+"}
      body == IF signed THEN Tail(t) ELSE t
      hex == Len(body) >= 2 /\ body[1] = "0" /\ LowerOf(body[2]) = "x"
      digs == IF hex THEN DigitPrefix(SubSeq(body, 3, Len(body)))
              ELSE DigitPrefix(body)
      mag == IF hex THEN HexDigitsValue(digs, 0) ELSE DigitsValue(digs, 0)
  IN  IF digs = <<>> THEN NaN
      ELSE Num(IF neg THEN 0 - mag ELSE mag)

(***************************************************************************)
(* Dates, as JavaScript Date objects and as the values JSON gives them.    *)
(***************************************************************************)
Null == [t |-> "null", ms |-> 0]
DateOf(ms) == [t |-> "date", ms |-> ms]
InvalidDate == [t |-> "invalid", ms |-> 0]
IsoString(ms) == [t |-> "iso", ms |-> ms]

MsPerSecond == 1000
SecondsPerMinute == 60
MinutesPerHour == 60
MsPerDay == 86400000

\* new Date(now.getTime() + amount * k): NaN gives an Invalid Date
DatePlus(clock, amount, k) ==
  IF amount.nan THEN InvalidDate ELSE DateOf(clock + amount.v * k)

Thrown(msg) == [threw |-> TRUE, msg |-> msg, value |-> Null]
Returned(v) == [threw |-> FALSE, msg |-> "", value |-> v]

\* parseTimeInput with the minutes case counting seconds
parseTimeInputMinutesAsSeconds(timeStr, clock) ==
  LET amount == ParseInt(SliceInit(timeStr))
      unit == ToLowerCase(SliceLast(timeStr))
  IN  CASE unit = <<"s">> -> Returned(DatePlus(clock, amount, MsPerSecond))
        [] unit = <<"m">> -> Returned(DatePlus(clock, amount, MsPerSecond))
        [] unit = <<"h">> ->
             Returned(DatePlus(clock, amount,
                               MinutesPerHour * SecondsPerMinute * MsPerSecond))
        [] OTHER -> Thrown("Invalid time format")

parseTimeInput(timeStr, clock) ==
  LET amount == ParseInt(SliceInit(timeStr))
      unit == ToLowerCase(SliceLast(timeStr))
  IN  CASE unit = <<"s">> -> Returned(DatePlus(clock, amount, MsPerSecond))
        [] unit = <<"m">> ->
             Returned(DatePlus(clock, amount, SecondsPerMinute * MsPerSecond))
        [] unit = <<"h">> ->
             Returned(DatePlus(clock, amount,
                               MinutesPerHour * SecondsPerMinute * MsPerSecond))
        [] OTHER -> Thrown("Invalid time format")

\* `${dd}/${mm}/${yyyy}` of today: the calendar day of the clock
DateString(clock) == clock \div MsPerDay

(***************************************************************************)
(* The storage file and JSON.                                              *)
(***************************************************************************)
\* what the file holds: nothing (absent), only white space (blank), text
\* that is not JSON (garbage), JSON that is not an array (nonarray), or a
\* JSON array of items
FileOf(kind, items) == [kind |-> kind, items |-> items]
Absent == FileOf("absent", <<>>)
Blank == FileOf("blank", <<>>)
Garbage == FileOf("garbage", <<>>)
NonArray == FileOf("nonarray", <<>>)
ArrayFile(items) == FileOf("array", items)

\* Date.prototype.toJSON under JSON.stringify: a Date becomes its ISO
\* string, an Invalid Date becomes null; null and strings are kept
\* a Date serialised as null
ToJSONValueDropsDate(d) ==
  CASE d.t = "date" -> Null
    [] d.t = "invalid" -> Null
    [] OTHER -> d

ToJSONValue(d) ==
  CASE d.t = "date" -> IsoString(d.ms)
    [] d.t = "invalid" -> Null
    [] OTHER -> d

StringifyItem(r) ==
  [id |-> r.id, text |-> r.text, createdAt |-> r.createdAt,
   scheduledAt |-> ToJSONValue(r.scheduledAt)]

\* JSON.stringify(reminders, null, 2) as file content
JSONStringify(reminders) ==
  ArrayFile([i \in 1..Len(reminders) |-> StringifyItem(reminders[i])])

\* JSON.parse(data): a SyntaxError on text that is not JSON
JSONParse(f) ==
  IF f.kind \in {"blank", "garbage"} THEN Thrown("SyntaxError")
  ELSE Returned(f)

ArrayIsArray(v) == v.kind = "array"

\* what readRemindersFromFile gives its caller: the array it returns,
\* whether it logged "Error reading reminders:", and whether an exception
\* leaves it (its catch block returns [] for every error)
Loaded(reminders, logged) ==
  [reminders |-> reminders, logged |-> logged, threw |-> FALSE]

\* readRemindersFromFile without its catch block: only ENOENT is handled
readRemindersNoCatch(f) ==
  IF f.kind = "absent" THEN Loaded(<<>>, FALSE)
  ELSE IF f.kind = "blank" THEN Loaded(<<>>, FALSE)
  ELSE LET parsedData == JSONParse(f)
       IN  IF parsedData.threw
           THEN [reminders |-> <<>>, logged |-> FALSE, threw |-> TRUE]
           ELSE IF ArrayIsArray(parsedData.value)
                THEN Loaded(parsedData.value.items, FALSE)
                ELSE Loaded(<<>>, FALSE)

readRemindersFromFile(f) ==
  IF f.kind = "absent" THEN Loaded(<<>>, FALSE)
  ELSE IF f.kind = "blank" THEN Loaded(<<>>, FALSE)
  ELSE LET parsedData == JSONParse(f)
       IN  IF parsedData.threw THEN Loaded(<<>>, TRUE)
           ELSE IF ArrayIsArray(parsedData.value)
                THEN Loaded(parsedData.value.items, FALSE)
                ELSE Loaded(<<>>, FALSE)

(***************************************************************************)
(* File writes.  fs.writeFile opens the file with flag "w" (create or      *)
(* truncate) and then writes the data; it can fail before the open         *)
(* (denied: the file is as it was), after the truncation (truncated) or    *)
(* part way through the data (partial: a proper prefix of the JSON text,   *)
(* which is not JSON).                                                     *)
(***************************************************************************)
WriteOutcomes == {"ok", "denied", "truncated", "partial"}

WriteFile(f, data, outcome) ==
  CASE outcome = "ok" -> data
    [] outcome = "denied" -> f
    [] outcome = "truncated" -> Blank
    [] OTHER -> Garbage

(***************************************************************************)
(* The notifier.  spawn(command) either starts a player that plays the     *)
(* sound (plays), starts a player that exits without playing (exitFail),   *)
(* returns a child that emits 'error' on the next tick because the program *)
(* could not be started (asyncError), or throws synchronously (throws).    *)
(* res[i] is the outcome of spawning the i-th mechanism of the platform,    *)
(* notSpawned when playSound never spawns it.                              *)
(***************************************************************************)
SpawnOutcomes == {"plays", "exitFail", "asyncError", "throws"}
Platforms == {"win32", "darwin", "linux", "other"}

Mechanisms(platform) ==
  CASE platform = "linux" -> <<"mpv", "aplay">>
    [] platform = "darwin" -> <<"afplay", "say">>
    [] platform = "win32" -> <<"powershell", "wmplayer">>
    [] OTHER -> <<>>

SoundResult(attempted, logs) == [attempted |-> attempted, logs |-> logs]

_windowsFallback(res) ==
  IF res[2] = "throws"
  THEN SoundResult(<<2>>, <<"Windows sound playback alternatives failed.">>)
  ELSE SoundResult(<<2>>, <<>>)

_playSoundWindows(res) ==
  IF res[1] = "throws"
  THEN LET fb == _windowsFallback(res)
       IN  SoundResult(<<1>> \o fb.attempted,
                       <<"PowerShell sound playback failed.">> \o fb.logs)
  ELSE SoundResult(<<1>>, <<>>)

_macOSFallback(res) ==
  IF res[2] = "throws"
  THEN SoundResult(<<2>>, <<"macOS sound playback alternatives failed.">>)
  ELSE SoundResult(<<2>>, <<>>)

_playSoundMacOS(res) ==
  IF res[1] = "throws"
  THEN LET fb == _macOSFallback(res)
       IN  SoundResult(<<1>> \o fb.attempted,
                       <<"afplay failed. Trying alternative...">> \o fb.logs)
  ELSE SoundResult(<<1>>, <<>>)

\* for (const command of soundCommands) { try { spawn; return } catch {} }
RECURSIVE LinuxLoop(_, _)
LinuxLoop(i, res) ==
  IF i > Len(Mechanisms("linux"))
  THEN SoundResult(<<>>, <<"No Linux sound playback method found.">>)
  ELSE IF res[i] = "throws"
       THEN LET rest == LinuxLoop(i + 1, res)
            IN  SoundResult(<<i>> \o rest.attempted, rest.logs)
       ELSE SoundResult(<<i>>, <<>>)

_playSoundLinux(res) == LinuxLoop(1, res)

_playSoundFallback ==
  SoundResult(<<>>, <<"Sound playback not supported on platform">>)

\* playSound(): attempted lists the mechanisms spawned, in order (by their
\* index in the platform's list); raised tells whether an exception leaves
\* playSound; uncaught tells whether a spawned child emits an 'error' event,
\* which has no listener and therefore ends the process as an uncaught
\* exception once the callback has returned.
playSound(platform, asset, res) ==
  LET r == IF ~asset THEN SoundResult(<<>>, <<"Sound file not found">>)
           ELSE CASE platform = "win32" -> _playSoundWindows(res)
                  [] platform = "darwin" -> _playSoundMacOS(res)
                  [] platform = "linux" -> _playSoundLinux(res)
                  [] OTHER -> _playSoundFallback
  IN  [platform |-> platform, asset |-> asset, res |-> res,
       called |-> TRUE,
       attempted |-> r.attempted, logs |-> r.logs,
       raised |-> FALSE,
       uncaught |-> \E i \in 1..Len(r.attempted) :
                       res[r.attempted[i]] = "asyncError"]

NoSound ==
  [platform |-> "other", asset |-> FALSE, res |-> <<"notSpawned", "notSpawned">>,
   called |-> FALSE, attempted |-> <<>>, logs |-> <<>>, raised |-> FALSE,
   uncaught |-> FALSE]

\* the environments playSound can meet: an outcome for exactly the mechanisms
\* it spawns
SoundEnvs ==
  {e \in [platform : Platforms, asset : BOOLEAN,
          res : [1..2 -> SpawnOutcomes \cup {"notSpawned"}]] :
     LET snd == playSound(e.platform, e.asset, e.res)
     IN  \A i \in 1..2 :
           (e.res[i] = "notSpawned")
             <=> (\A j \in 1..Len(snd.attempted) : snd.attempted[j] # i)}

(***************************************************************************)
(* The scheduler, as setReminder uses it: schedule.scheduleJob(date, fn)   *)
(* registers a one-shot job when date is a valid Date that is not before   *)
(* the clock at the time of the call, and registers nothing otherwise.     *)
(***************************************************************************)
NoJob == [set |-> FALSE, at |-> 0]

scheduleJob(date, clock) ==
  IF date.t = "date" /\ date.ms >= clock
  THEN [set |-> TRUE, at |-> date.ms]
  ELSE NoJob

(***************************************************************************)
(* Command-line inputs.                                                    *)
(***************************************************************************)
\* the <reminder> positional of "set"
RawTexts == {<<>>, <<" ">>, <<" ", "a", " ">>}

\* the --in option: not given, or given with a string
NoTimeStr == [given |-> FALSE, s |-> <<>>]
TimeStr(s) == [given |-> TRUE, s |-> s]

TimeStrs ==
  {NoTimeStr, TimeStr(<<>>),
   TimeStr(<<"0", "s">>), TimeStr(<<"1", "s">>), TimeStr(<<"3", "0", "m">>),
   TimeStr(<<"2", "h">>), TimeStr(<<"2", "x">>), TimeStr(<<"h">>)}

\* `timeStr ?` in setReminder: undefined (turned into null by the default
\* parameter) and the empty string are falsy
Truthy(timeStr) == timeStr.given /\ timeStr.s # <<>>

(***************************************************************************)
(* The state of one process.                                               *)
(***************************************************************************)
NoReminder == [id |-> 0, text |-> <<>>, createdAt |-> 0, scheduledAt |-> Null]

IdleProc ==
  [pc |-> "idle", cmd |-> "none", raw |-> <<>>, text |-> <<>>,
   timeStr |-> NoTimeStr, loaded |-> <<>>, reminders |-> <<>>,
   newReminder |-> NoReminder, T |-> 0, schedClock |-> 0, job |-> NoJob, bannerAt |-> 0,
   out |-> <<>>, nread |-> 0, nwrite |-> 0,
   snd |-> NoSound, fires |-> 0, firedAt |-> 0, exit |-> "none"]

BannerDelayMs == 2000

\* files the tool may find in its working directory when it starts
StaleItem ==
  [id |-> 7, text |-> <<"z">>, createdAt |-> 0, scheduledAt |-> Null]

InitialFiles ==
  {Absent, Blank, Garbage, NonArray, ArrayFile(<<>>), ArrayFile(<<StaleItem>>)}

Init ==
  /\ file \in InitialFiles
  /\ now = 0
  /\ proc = [p \in Procs |-> IdleProc]

\* a fresh working directory: no storage file yet
InitFresh ==
  /\ file = Absent
  /\ now = 0
  /\ proc = [p \in Procs |-> IdleProc]

(***************************************************************************)
(* init                                                                    *)
(***************************************************************************)
\* an existence check that always reports the file missing
AccessAlwaysENOENT(f) == TRUE

\* fs.access(filePath) fails with ENOENT
AccessENOENT(f) == f.kind = "absent"

\* index.js dispatches to initReminder, which awaits fs.access
initReminder_access(p) ==
  /\ proc[p].pc = "idle"
  /\ now <= MaxNow
  /\ proc' = [proc EXCEPT ![p] =
       [IdleProc EXCEPT !.cmd = "init",
          !.pc = IF AccessENOENT(file) THEN "init_write" ELSE "init_banner",
          !.bannerAt = now + BannerDelayMs]]
  /\ UNCHANGED <<file, now>>

\* the writeFile of initReminder, after the ENOENT of fs.access
initReminder_write(p) ==
  /\ proc[p].pc = "init_write"
  /\ \E outcome \in WriteOutcomes :
       /\ file' = WriteFile(file, JSONStringify(<<>>), outcome)
       /\ proc' = [proc EXCEPT ![p] =
            [@ EXCEPT !.nwrite = @ + 1,
               !.pc = IF outcome = "ok" THEN "init_banner" ELSE "done",
               !.bannerAt = now + BannerDelayMs,
               !.out = IF outcome = "ok" THEN @
                       ELSE Append(@, "Error during initialization:")]]
  /\ UNCHANGED now

\* the setTimeout callback of initReminder
initReminder_banner(p) ==
  /\ proc[p].pc = "init_banner"
  /\ now >= proc[p].bannerAt
  /\ proc' = [proc EXCEPT ![p] =
       [@ EXCEPT !.pc = "done",
                 !.out = Append(@, "Welcome to reminder-cli tool")]]
  /\ UNCHANGED <<file, now>>

(***************************************************************************)
(* set                                                                     *)
(***************************************************************************)
\* index.js: trimmedReminder.length === 0
IsEmptyText(trimmed) == Len(trimmed) = 0

\* newReminder with a 0-based id
NewReminderIdFromZero(reminders, reminderText, clock, scheduledAt) ==
  [id |-> Len(reminders), text |-> reminderText,
   createdAt |-> DateString(clock), scheduledAt |-> scheduledAt]

\* the object literal newReminder of setReminder
\* id: reminders.length || 1
NewReminderIdOrOne(reminders, reminderText, clock, scheduledAt) ==
  [id |-> IF Len(reminders) = 0 THEN 1 ELSE Len(reminders),
   text |-> reminderText,
   createdAt |-> DateString(clock), scheduledAt |-> scheduledAt]

NewReminder(reminders, reminderText, clock, scheduledAt) ==
  [id |-> Len(reminders) + 1, text |-> reminderText,
   createdAt |-> DateString(clock), scheduledAt |-> scheduledAt]

\* unshift in place of push
PushFront(reminders, r) == <<r>> \o reminders

\* reminders.push(newReminder)
Push(reminders, r) == Append(reminders, r)

\* setReminder from its call up to the await of writeRemindersToFile: the
\* file is read, the reminder is built, the job is registered.  elapsed is
\* the time that passes between the new Date() of parseTimeInput and the
\* clock reading of scheduleJob; T and schedClock record the two readings.
setReminder(p, raw, reminderText, timeStr, elapsed, maxStore) ==
  LET rd == readRemindersFromFile(file)
      parsed == IF Truthy(timeStr) THEN parseTimeInput(timeStr.s, now)
                ELSE Returned(Null)
      newReminder == NewReminder(rd.reminders, reminderText, now, parsed.value)
      base == [IdleProc EXCEPT !.cmd = "set", !.raw = raw,
                 !.text = reminderText, !.timeStr = timeStr, !.nread = 1,
                 !.loaded = rd.reminders, !.T = now,
                 !.out = IF rd.logged THEN <<"Error reading reminders:">>
                         ELSE <<>>]
  IN  /\ Len(rd.reminders) < maxStore
      /\ Truthy(timeStr) => now <= MaxNow
      /\ IF rd.threw \/ parsed.threw
         THEN /\ elapsed = 0
              /\ proc' = [proc EXCEPT ![p] =
                   [base EXCEPT !.pc = "done",
                      !.out = Append(@, "Error saving the reminder:")]]
              /\ UNCHANGED now
         ELSE /\ ~Truthy(timeStr) => elapsed = 0
              /\ proc' = [proc EXCEPT ![p] =
                   [base EXCEPT !.pc = "set_write",
                      !.newReminder = newReminder,
                      !.schedClock = now + elapsed,
                      !.job = IF Truthy(timeStr)
                              THEN scheduleJob(newReminder.scheduledAt,
                                               now + elapsed)
                              ELSE NoJob,
                      !.reminders = Push(rd.reminders, newReminder)]]
              /\ now' = now + elapsed
      /\ UNCHANGED file

\* the handler of "set" in index.js
setCommand(p, inp) ==
  /\ proc[p].pc = "idle"
  /\ \E raw \in inp.texts, timeStr \in inp.timeStrs,
        elapsed \in inp.elapsed :
       LET trimmedReminder == Trim(raw)
       IN  IF IsEmptyText(trimmedReminder)
           THEN /\ elapsed = 0
                /\ proc' = [proc EXCEPT ![p] =
                     [IdleProc EXCEPT !.cmd = "set", !.raw = raw,
                        !.timeStr = timeStr, !.pc = "done",
                        !.out = <<"Error: Reminder text cannot be empty.">>]]
                /\ UNCHANGED <<file, now>>
           ELSE setReminder(p, raw, trimmedReminder, timeStr, elapsed,
                            inp.maxStore)

\* a setReminder whose catch block cancels the job it registered
setReminder_writeCancelsOnError(p) ==
  /\ proc[p].pc = "set_write"
  /\ \E outcome \in WriteOutcomes :
       /\ file' = WriteFile(file, JSONStringify(proc[p].reminders), outcome)
       /\ proc' = [proc EXCEPT ![p] =
            [@ EXCEPT !.nwrite = @ + 1,
               !.job = IF outcome # "ok" THEN NoJob ELSE @,
               !.pc = IF proc[p].job.set /\ outcome = "ok" THEN "waiting"
                      ELSE IF proc[p].fires = 1 THEN "fired" ELSE "done",
               !.out = IF outcome # "ok"
                       THEN Append(@, "Error saving the reminder:")
                       ELSE @ \o <<"Reminder Set:">>
                              \o (IF Truthy(proc[p].timeStr)
                                  THEN <<"Scheduled for:">> ELSE <<>>)
                              \o <<"You now have n reminder(s).">>]]
  /\ UNCHANGED now

\* setReminder from the await of writeRemindersToFile to its end
setReminder_write(p) ==
  /\ proc[p].pc = "set_write"
  /\ \E outcome \in WriteOutcomes :
       /\ file' = WriteFile(file, JSONStringify(proc[p].reminders), outcome)
       /\ proc' = [proc EXCEPT ![p] =
            [@ EXCEPT !.nwrite = @ + 1,
               !.pc = IF proc[p].job.set THEN "waiting"
                      ELSE IF proc[p].fires = 1 THEN "fired" ELSE "done",
               !.out = IF outcome # "ok"
                       THEN Append(@, "Error saving the reminder:")
                       ELSE @ \o <<"Reminder Set:">>
                              \o (IF Truthy(proc[p].timeStr)
                                  THEN <<"Scheduled for:">> ELSE <<>>)
                              \o <<"You now have n reminder(s).">>]]
  /\ UNCHANGED now

\* the callback given to schedule.scheduleJob: it runs when the clock has
\* reached the job's time, whether or not the write of setReminder has
\* completed; the job is one-shot.  An uncaught exception ends the process;
\* a write still in flight at that moment has any of its outcomes.
scheduledCallback(p, inp) ==
  /\ proc[p].pc \in {"set_write", "waiting"}
  /\ proc[p].job.set
  /\ now >= proc[p].job.at
  /\ \E e \in inp.sounds, outcome \in WriteOutcomes :
       LET snd == playSound(e.platform, e.asset, e.res)
           dies == snd.raised \/ snd.uncaught
           inFlight == proc[p].pc = "set_write"
       IN  /\ ~(inFlight /\ dies) => outcome = "denied"
           /\ file' = IF inFlight /\ dies
                      THEN WriteFile(file, JSONStringify(proc[p].reminders),
                                     outcome)
                      ELSE file
           /\ proc' = [proc EXCEPT ![p] =
                [@ EXCEPT !.pc = IF inFlight /\ ~dies THEN "set_write"
                                 ELSE "fired",
                   !.job = NoJob, !.snd = snd,
                   !.fires = @ + 1, !.firedAt = now,
                   !.nwrite = IF inFlight /\ dies THEN @ + 1 ELSE @,
                   !.out = IF snd.raised THEN @ \o snd.logs
                           ELSE @ \o snd.logs \o <<"Reminder:">>,
                   !.exit = IF dies THEN "uncaught" ELSE "ok"]]
  /\ UNCHANGED now

(***************************************************************************)
(* list and clear                                                          *)
(***************************************************************************)
listReminders(p) ==
  /\ proc[p].pc = "idle"
  /\ LET rd == readRemindersFromFile(file)
     IN  proc' = [proc EXCEPT ![p] =
           [IdleProc EXCEPT !.cmd = "list", !.pc = "done", !.nread = 1,
              !.loaded = rd.reminders,
              !.out = (IF rd.logged THEN <<"Error reading reminders:">>
                       ELSE <<>>)
                      \o (IF rd.threw THEN <<"listReminders: Error reading reminders:">>
                          ELSE IF Len(rd.reminders) = 0
                          THEN <<"No reminders set yet.">>
                          ELSE <<"Your Reminders:">>)]]
  /\ UNCHANGED <<file, now>>

\* clearReminders without its emptiness test
NeverNothingToClear(reminders) == FALSE

\* clearReminders: reminders.length === 0
NothingToClear(reminders) == Len(reminders) = 0

\* clearReminders up to its await of fs.writeFile
clearReminders(p) ==
  /\ proc[p].pc = "idle"
  /\ LET rd == readRemindersFromFile(file)
         base == [IdleProc EXCEPT !.cmd = "clear", !.nread = 1,
                    !.loaded = rd.reminders,
                    !.out = IF rd.logged THEN <<"Error reading reminders:">>
                            ELSE <<>>]
     IN  proc' = [proc EXCEPT ![p] =
           IF rd.threw
           THEN [base EXCEPT !.pc = "done",
                   !.out = Append(@, "An error occurred while clearing reminders:")]
           ELSE IF NothingToClear(rd.reminders)
           THEN [base EXCEPT !.pc = "done",
                             !.out = Append(@, "No reminders set yet.")]
           ELSE [base EXCEPT !.pc = "clear_write"]]
  /\ UNCHANGED <<file, now>>

clearReminders_write(p) ==
  /\ proc[p].pc = "clear_write"
  /\ \E outcome \in WriteOutcomes :
       /\ file' = WriteFile(file, JSONStringify(<<>>), outcome)
       /\ proc' = [proc EXCEPT ![p] =
            [@ EXCEPT !.nwrite = @ + 1, !.pc = "done",
               !.out = IF outcome = "ok"
                       THEN Append(@, "All reminders have been cleared.")
                       ELSE Append(@, "An error occurred while clearing reminders:")]]
  /\ UNCHANGED now

(***************************************************************************)
(* Process exit and the clock.                                             *)
(***************************************************************************)
\* nothing is left on the event loop (or an uncaught exception ended the
\* process): the process is gone and its memory with it
processExit(p) ==
  /\ proc[p].pc \in {"done", "fired"}
  /\ proc' = [proc EXCEPT ![p] = IdleProc]
  /\ UNCHANGED <<file, now>>

PendingTimers ==
  {proc[p].job.at : p \in {q \in Procs : proc[q].job.set}}
    \cup {proc[p].bannerAt : p \in {q \in Procs : proc[q].pc = "init_banner"}}

\* the clock runs on to the next pending timer
AdvanceToTimer ==
  /\ \E t \in PendingTimers :
       /\ t > now
       /\ \A u \in PendingTimers : u > now => t <= u
       /\ now' = t
  /\ UNCHANGED <<file, proc>>

\* no process is in the middle of a command
Sequential ==
  \A q \in Procs : proc[q].pc \in {"idle", "waiting", "done", "fired"}

\* one step of the system.  inp bounds the command-line inputs and the
\* environments of the notifier; with seq a command starts only when no
\* other process is in the middle of one.
Step(inp, seq, procs) ==
  \/ \E p \in procs : (seq => Sequential) /\ initReminder_access(p)
  \/ \E p \in procs : initReminder_write(p)
  \/ \E p \in procs : initReminder_banner(p)
  \/ \E p \in procs : (seq => Sequential) /\ setCommand(p, inp)
  \/ \E p \in procs : setReminder_write(p)
  \/ \E p \in procs : scheduledCallback(p, inp)
  \/ \E p \in procs : (seq => Sequential) /\ listReminders(p)
  \/ \E p \in procs : (seq => Sequential) /\ clearReminders(p)
  \/ \E p \in procs : clearReminders_write(p)
  \/ \E p \in procs : processExit(p)
  \/ AdvanceToTimer

\* the inputs of the specifications about the store: a blank and a padded
\* text, one valid and one invalid delay, a notifier without its asset, no
\* time lost inside setReminder
StoreInputs ==
  [texts |-> {<<" ">>, <<" ", "a", " ">>},
   timeStrs |-> {NoTimeStr, TimeStr(<<"1", "s">>), TimeStr(<<"2", "x">>)},
   sounds |-> {e \in SoundEnvs : ~e.asset /\ e.platform = "linux"},
   elapsed |-> {0},
   maxStore |-> MaxStore]

\* the inputs of the specification about delays, the scheduler and the
\* notifier: every text, every delay string, every environment of playSound,
\* the clock standing still or moving on inside setReminder
SchedInputs ==
  [texts |-> RawTexts,
   timeStrs |-> TimeStrs,
   sounds |-> SoundEnvs,
   elapsed |-> 0..1,
   maxStore |-> MaxSchedStore]

Next == Step(StoreInputs, FALSE, Procs)

\* any number of processes, commands interleaved at their awaits, any
\* storage file to start with
Spec == Init /\ [][Next]_vars

NextSeq == Step(StoreInputs, TRUE, Procs)

\* commands run one after another, starting from a fresh directory
SpecSeq == InitFresh /\ [][NextSeq]_vars

NextSched == Step(SchedInputs, TRUE, {"p1"})

\* commands run one after another from a fresh directory, with every delay
\* string and every environment of the notifier
SpecSched == InitFresh /\ [][NextSched]_vars

\* the event loop runs a due timer, a pending write completes and time
\* passes
SpecSchedFair ==
  /\ SpecSched
  /\ WF_vars(setReminder_write("p1"))
  /\ WF_vars(scheduledCallback("p1", SchedInputs))
  /\ WF_vars(AdvanceToTimer)

\* the inputs of the specification about the round trip through the file:
\* no delay, a valid delay and the delay "h" that parseTimeInput turns into
\* an Invalid Date
RoundTripInputs ==
  [texts |-> {<<" ">>, <<" ", "a", " ">>},
   timeStrs |-> {NoTimeStr, TimeStr(<<"1", "s">>), TimeStr(<<"h">>)},
   sounds |-> {e \in SoundEnvs : ~e.asset /\ e.platform = "linux"},
   elapsed |-> {0},
   maxStore |-> MaxStore]

NextRoundTrip == Step(RoundTripInputs, TRUE, {"p1"})

\* one process, commands run one after another from a fresh directory, the
\* reminders built with and without a scheduledAt
SpecRoundTrip == InitFresh /\ [][NextRoundTrip]_vars

\* the inputs of the specification about pending callbacks: for the process
\* that sets reminders, no delay and the delays "0s" and "1s", no time lost
\* inside setReminder, a notifier without its asset
PendingInputs ==
  [texts |-> {<<" ">>, <<" ", "a", " ">>},
   timeStrs |-> {NoTimeStr, TimeStr(<<"0", "s">>), TimeStr(<<"1", "s">>)},
   sounds |-> {e \in SoundEnvs : ~e.asset /\ e.platform = "linux"},
   elapsed |-> {0},
   maxStore |-> MaxSchedStore]

\* the inputs of the other process: sets without a delay
UntimedInputs ==
  [texts |-> {<<" ", "a", " ">>},
   timeStrs |-> {NoTimeStr},
   sounds |-> {},
   elapsed |-> {0},
   maxStore |-> MaxSchedStore]

\* process p1 runs any command; while its job is pending, process p2 sets
\* reminders without a delay and clears the store
NextPending ==
  \/ Step(PendingInputs, TRUE, {"p1"})
  \/ \E p \in {"p2"} : Sequential /\ setCommand(p, UntimedInputs)
  \/ \E p \in {"p2"} : setReminder_write(p)
  \/ \E p \in {"p2"} : Sequential /\ clearReminders(p)
  \/ \E p \in {"p2"} : clearReminders_write(p)
  \/ \E p \in {"p2"} : processExit(p)

\* commands run one after another from a fresh directory
SpecPending == InitFresh /\ [][NextPending]_vars

\* the event loop of p1 runs a due timer and completes a pending write, and
\* time passes
SpecPendingFair ==
  /\ SpecPending
  /\ WF_vars(setReminder_write("p1"))
  /\ WF_vars(scheduledCallback("p1", PendingInputs))
  /\ WF_vars(AdvanceToTimer)

\* the inputs of the specification about concurrent sets: one text, with
\* and without a delay, so that the reminders of two processes can differ
RaceInputs ==
  [texts |-> {<<"a">>},
   timeStrs |-> {NoTimeStr, TimeStr(<<"1", "s">>)},
   sounds |-> {e \in SoundEnvs : ~e.asset /\ e.platform = "linux"},
   elapsed |-> {0},
   maxStore |-> MaxStore]

NextRace == Step(RaceInputs, FALSE, Procs)

\* two processes from a fresh directory, commands interleaved at their
\* awaits
SpecRace == InitFresh /\ [][NextRace]_vars

TypeOK ==
  /\ file.kind \in {"absent", "blank", "garbage", "nonarray", "array"}
  /\ now \in Nat
  /\ \A p \in Procs : proc[p].fires \in 0..1

(***************************************************************************)
(* Properties.                                                             *)
(***************************************************************************)
OutHas(out, msg) == \E i \in 1..Len(out) : out[i] = msg

\* the sequence the store holds: the items of an array file, nothing for
\* any other file
StoreOf(f) == IF f.kind = "array" THEN f.items ELSE <<>>

\* process p completes the write of a set command, successfully
SetWriteOk(p) ==
  /\ proc[p].pc = "set_write"
  /\ proc'[p].pc # "set_write"
  /\ OutHas(proc'[p].out, "Reminder Set:")

\* process p makes the step of a command that reads the storage file
ReadStep(p) == proc[p].pc = "idle" /\ proc'[p].nread = 1

\* C1: a successful set leaves the store equal to the sequence its load
\* returned (empty for an absent, blank, malformed or non-array file) with
\* exactly one reminder appended: length + 1, new id = prior length + 1, the
\* trimmed text, and the existing items unchanged and in order.
C1_SetAppendsOne ==
  [][\A p \in Procs :
       /\ (ReadStep(p) /\ proc'[p].cmd = "set")
            => proc'[p].loaded = StoreOf(file)
       /\ SetWriteOk(p) =>
            LET old == proc[p].loaded
                new == StoreOf(file')
            IN  /\ file'.kind = "array"
                /\ Len(new) = Len(old) + 1
                /\ new[Len(new)].id = Len(old) + 1
                /\ new[Len(new)].text = Trim(proc[p].raw)
                /\ \A i \in 1..Len(old) : new[i] = old[i]]_vars

C1_Witness ==
  \E p \in Procs :
    /\ proc[p].cmd = "set"
    /\ proc[p].pc = "waiting"
    /\ proc[p].loaded = <<StaleItem>>
    /\ OutHas(proc[p].out, "Reminder Set:")
    /\ file.kind = "array"
    /\ Len(file.items) = 2
    /\ file.items[1] = StaleItem
    /\ file.items[2].id = 2

\* the delay strings of the form <integer><unit>, unit one of s, m, h
WellFormedDelay(s) ==
  /\ Len(s) >= 2
  /\ s[Len(s)] \in {"s", "m", "h"}
  /\ \A i \in 1..(Len(s) - 1) : s[i] \in DecDigits

\* C2: a set whose delay string is not <integer><unit> fails with the
\* invalid-format error: nothing is written and no callback is registered.
C2_InvalidDelayAborts ==
  \A p \in Procs :
    (/\ proc[p].cmd = "set"
     /\ Trim(proc[p].raw) # <<>>
     /\ proc[p].timeStr.given
     /\ proc[p].timeStr.s # <<>>
     /\ ~WellFormedDelay(proc[p].timeStr.s))
    => /\ proc[p].pc = "done"
       /\ proc[p].out = <<"Error saving the reminder:">>
       /\ proc[p].nwrite = 0
       /\ ~proc[p].job.set
       /\ proc[p].fires = 0

\* the text is empty or only white space
IsBlankText(s) == \A i \in 1..Len(s) : s[i] = " "

\* C3: a set whose text is empty after trimming is rejected with an error
\* message before the store is called: no read, no write, no callback, even
\* with --in.
C3_EmptyTextRejected ==
  \A p \in Procs :
    (proc[p].cmd = "set" /\ IsBlankText(proc[p].raw))
    => /\ proc[p].pc = "done"
       /\ proc[p].out = <<"Error: Reminder text cannot be empty.">>
       /\ proc[p].nread = 0
       /\ proc[p].nwrite = 0
       /\ ~proc[p].job.set
       /\ proc[p].fires = 0

C3_Witness ==
  \E p \in Procs :
    /\ proc[p].cmd = "set"
    /\ proc[p].raw = <<" ">>
    /\ proc[p].timeStr = TimeStr(<<"1", "s">>)
    /\ proc[p].pc = "done"
    /\ proc[p].out = <<"Error: Reminder text cannot be empty.">>
    /\ file = Absent

\* process q has cleared the store and has not exited yet
Cleared(q) ==
  /\ proc[q].cmd = "clear"
  /\ proc[q].pc = "done"
  /\ OutHas(proc[q].out, "All reminders have been cleared.")

\* C4: with commands run one after another from a fresh directory, the item
\* at position i of the store has id i (1-based), so ids are positive and
\* pairwise distinct, and the set that follows a clear (the file still as
\* the clear left it) gets id 1.
C4_IdsArePositions ==
  /\ [](file.kind = "array" =>
          /\ \A i \in 1..Len(file.items) : file.items[i].id = i
          /\ \A i \in 1..Len(file.items) : file.items[i].id > 0
          /\ \A i, j \in 1..Len(file.items) :
               i # j => file.items[i].id # file.items[j].id)
  /\ [][\A p, q \in Procs :
          (Cleared(q) /\ file = ArrayFile(<<>>) /\ SetWriteOk(p))
            => /\ Len(StoreOf(file')) = 1
               /\ StoreOf(file')[1].id = 1]_vars

C4_Witness ==
  \E p, q \in Procs :
    /\ Cleared(p)
    /\ Len(proc[p].loaded) = 2
    /\ proc[q].cmd = "set"
    /\ OutHas(proc[q].out, "Reminder Set:")
    /\ file.kind = "array"
    /\ Len(file.items) = 1
    /\ file.items[1].id = 1

\* C5: a clear that loads a non-empty store overwrites the file with the
\* empty array (when the write succeeds), so that a load returns the empty
\* sequence; a clear that loads an empty store writes nothing and leaves the
\* file as it was.
C5_ClearFrame ==
  [][\A p \in Procs :
       /\ (ReadStep(p) /\ proc'[p].cmd = "clear")
            => /\ file' = file
               /\ IF StoreOf(file) = <<>>
                  THEN proc'[p].pc = "done" /\ proc'[p].nwrite = 0
                  ELSE proc'[p].pc = "clear_write"
       /\ (/\ proc[p].pc = "clear_write"
           /\ OutHas(proc'[p].out, "All reminders have been cleared."))
            => /\ proc[p].loaded # <<>>
               /\ file' = ArrayFile(<<>>)
               /\ readRemindersFromFile(file').reminders = <<>>]_vars

C5_Witness ==
  \E p, q \in Procs :
    /\ proc[p].cmd = "clear"
    /\ proc[p].pc = "done"
    /\ proc[p].loaded # <<>>
    /\ proc[p].nwrite = 1
    /\ OutHas(proc[p].out, "All reminders have been cleared.")
    /\ proc[q].cmd = "clear"
    /\ proc[q].pc = "done"
    /\ proc[q].nwrite = 0
    /\ OutHas(proc[q].out, "No reminders set yet.")
    /\ file = ArrayFile(<<>>)

\* process p completes the write of an init command
InitWriteStep(p) ==
  proc[p].pc = "init_write" /\ proc'[p].pc # "init_write"

\* C6 as stated: init never overwrites existing content, whatever was
\* written before or between its existence check and its write; a store
\* that holds reminders holds them after any write of init.
C6_InitNeverOverwrites ==
  [][\A p \in Procs :
       (InitWriteStep(p) /\ proc'[p].pc = "init_banner"
          /\ StoreOf(file) # <<>>)
         => StoreOf(file') = StoreOf(file)]_vars

\* C6 as amended: init writes only after its existence check found the file
\* absent and touches the file in no other step; run on an existing file it
\* leaves the content unchanged.
C6_InitWritesOnlyAfterAbsent ==
  [][\A p \in Procs :
       /\ (proc[p].pc # "init_write" /\ proc'[p].pc = "init_write")
            => (file.kind = "absent" /\ file' = file)
       /\ (proc[p].pc = "idle" /\ proc'[p].cmd = "init"
             /\ file.kind # "absent")
            => (file' = file /\ proc'[p].pc = "init_banner")
       /\ (proc[p].cmd = "init" /\ proc'[p] # proc[p] /\ file' # file)
            => proc[p].pc = "init_write"]_vars

C6_Witness ==
  \E p \in Procs :
    /\ proc[p].cmd = "init"
    /\ proc[p].pc = "done"
    /\ proc[p].nwrite = 0
    /\ OutHas(proc[p].out, "Welcome to reminder-cli tool")
    /\ file.kind = "array"
    /\ Len(file.items) = 2

ValidDelays ==
  {[s |-> <<"0", "s">>, n |-> 0, unitSeconds |-> 1],
   [s |-> <<"1", "s">>, n |-> 1, unitSeconds |-> 1],
   [s |-> <<"3", "0", "m">>, n |-> 30, unitSeconds |-> 60],
   [s |-> <<"2", "h">>, n |-> 2, unitSeconds |-> 3600]}

\* process p has run set with the valid delay d, past the registration
SetWithDelay(p, d) ==
  /\ proc[p].cmd = "set"
  /\ proc[p].timeStr = TimeStr(d.s)
  /\ proc[p].pc \in {"set_write", "waiting", "fired", "done"}
  /\ Trim(proc[p].raw) # <<>>

\* scheduledAt = T + n * unit_seconds, and the callback runs at most once and
\* never before scheduledAt
DelaySafety(p, d) ==
  /\ proc[p].newReminder.scheduledAt = DateOf(proc[p].T + d.n * d.unitSeconds * 1000)
  /\ proc[p].fires <= 1
  /\ proc[p].fires = 1 => proc[p].firedAt >= proc[p].newReminder.scheduledAt.ms
  /\ proc[p].job.set => proc[p].job.at = proc[p].newReminder.scheduledAt.ms

\* C8 as stated: for every valid delay, "0s" included, scheduledAt is
\* T + n * unit_seconds and the callback runs exactly once, not before
\* scheduledAt: after the registration it is pending or has run.
C8_EveryDelayFires ==
  \A p \in Procs : \A d \in ValidDelays :
    SetWithDelay(p, d) =>
      /\ DelaySafety(p, d)
      /\ proc[p].job.set \/ proc[p].fires = 1

\* C8 as amended: scheduledAt is T + n * unit_seconds; when scheduledAt is
\* not before the clock at the registration the callback is registered and
\* runs exactly once, at or after scheduledAt; when it is before (possible
\* for "0s") no callback is registered and none ever runs.
C8_FutureDelayFiresOnce ==
  /\ [](\A p \in Procs : \A d \in ValidDelays :
          SetWithDelay(p, d) =>
            /\ DelaySafety(p, d)
            /\ proc[p].newReminder.scheduledAt.ms >= proc[p].schedClock
                 => (proc[p].job.set \/ proc[p].fires = 1)
            /\ proc[p].newReminder.scheduledAt.ms < proc[p].schedClock
                 => (~proc[p].job.set /\ proc[p].fires = 0)
            /\ d.n >= 1 => (proc[p].job.set \/ proc[p].fires = 1))
  /\ \A p \in Procs :
       (proc[p].job.set) ~> (proc[p].fires = 1 /\ ~proc[p].job.set)

C8_Witness ==
  \E p \in Procs :
    /\ proc[p].cmd = "set"
    /\ proc[p].timeStr = TimeStr(<<"3", "0", "m">>)
    /\ proc[p].T = 0
    /\ proc[p].fires = 1
    /\ proc[p].firedAt = 1800000
    /\ OutHas(proc[p].out, "Reminder:")
    /\ proc[p].snd.called

\* C9: playSound never raises and never ends the process, whatever fails,
\* and the reminder text of the firing callback is printed.
C9_PlaySoundNeverFatal ==
  \A p \in Procs :
    proc[p].snd.called =>
      /\ ~proc[p].snd.raised
      /\ OutHas(proc[p].out, "Reminder:")
      /\ proc[p].exit # "uncaught"

\* the i-th mechanism was spawned
Attempted(snd, i) ==
  \E j \in 1..Len(snd.attempted) : snd.attempted[j] = i

\* C10: the mechanisms of the platform are tried in order: when one fails to
\* play the next is attempted, and a mechanism is attempted only after every
\* earlier one has failed.
C10_FallbackOrder ==
  \A p \in Procs :
    (proc[p].snd.called /\ proc[p].snd.asset
       /\ Len(Mechanisms(proc[p].snd.platform)) > 0)
    => LET snd == proc[p].snd
           n == Len(Mechanisms(snd.platform))
       IN  /\ Attempted(snd, 1)
           /\ \A i \in 1..(n - 1) :
                (Attempted(snd, i) /\ snd.res[i] # "plays")
                  => Attempted(snd, i + 1)
           /\ \A i \in 2..n :
                Attempted(snd, i)
                  => \A k \in 1..(i - 1) :
                       Attempted(snd, k) /\ snd.res[k] # "plays"

\* what a load gives back for a scheduledAt that was written: null for
\* null, the ISO-8601 string of the same instant for a timestamp, null for
\* an Invalid Date
Reloaded(d) ==
  IF d = Null THEN Null
  ELSE IF d.t = "date" THEN [t |-> "iso", ms |-> d.ms]
  ELSE IF d.t = "invalid" THEN Null
  ELSE d

\* C11 as stated: the sequence a set has built in memory (the items it
\* loaded and its new reminder, scheduledAt null or a timestamp), written to
\* the file and loaded again, is the same sequence, item by item and field
\* by field.
C11_RoundTripIdentity ==
  [][\A p \in Procs :
       (/\ SetWriteOk(p)
        /\ \A i \in 1..Len(proc[p].reminders) :
             proc[p].reminders[i].scheduledAt.t # "invalid")
         => readRemindersFromFile(file').reminders = proc[p].reminders]_vars

\* C11 as amended: the loaded sequence has the same length and order and
\* the same id, text and createdAt; a null scheduledAt comes back null, a
\* timestamp comes back as the ISO-8601 string of the same instant and not
\* as a timestamp value, an Invalid Date comes back null; writing the
\* loaded sequence again gives the same file.
C11_RoundTripUpToIsoString ==
  [][\A p \in Procs :
       SetWriteOk(p) =>
         LET S == proc[p].reminders
             L == readRemindersFromFile(file').reminders
         IN  /\ Len(L) = Len(S)
             /\ \A i \in 1..Len(S) :
                  /\ L[i].id = S[i].id
                  /\ L[i].text = S[i].text
                  /\ L[i].createdAt = S[i].createdAt
                  /\ L[i].scheduledAt = Reloaded(S[i].scheduledAt)
                  /\ S[i].scheduledAt.t = "date" => L[i] # S[i]
             /\ JSONStringify(L) = file']_vars

C11_Witness ==
  /\ proc["p1"].cmd = "set"
  /\ proc["p1"].pc = "waiting"
  /\ OutHas(proc["p1"].out, "Reminder Set:")
  /\ Len(proc["p1"].reminders) = 2
  /\ proc["p1"].reminders[1].scheduledAt = Null
  /\ proc["p1"].reminders[2].scheduledAt = DateOf(1000)
  /\ file = JSONStringify(proc["p1"].reminders)
  /\ readRemindersFromFile(file).reminders[1] = proc["p1"].reminders[1]
  /\ readRemindersFromFile(file).reminders[2].scheduledAt = IsoString(1000)

\* process p completes the write of a set command with an error
SetWriteFails(p) ==
  /\ proc[p].pc = "set_write"
  /\ proc'[p].pc # "set_write"
  /\ OutHas(proc'[p].out, "Error saving the reminder:")

\* process q completes the write of a clear command
ClearWriteStep(q) ==
  proc[q].pc = "clear_write" /\ proc'[q].pc # "clear_write"

WroteLast(q) ==
  /\ proc[q].cmd = "set"
  /\ proc[q].pc \in {"waiting", "done", "fired"}
  /\ OutHas(proc[q].out, "Reminder Set:")
  /\ file = JSONStringify(proc[q].reminders)

\* the number of items of the store equal to the reminder r as written
Persisted(f, r) ==
  Cardinality({i \in 1..Len(StoreOf(f)) : StoreOf(f)[i] = StringifyItem(r)})

\* C13: the ids of the store are pairwise distinct in every interleaving; a
\* successful write of set leaves the file equal to the array of that
\* process, whatever another process wrote in between; when q wrote its set
\* on a store of length n and p writes next, the store has n + 1 items if p
\* had read before q wrote (p's reminder is in it, q's is lost) and n + 2
\* items if p read what q wrote (both are in it).
C13_LastWriterWins ==
  /\ [](file.kind = "array" =>
          \A i, j \in 1..Len(file.items) :
            i # j => file.items[i].id # file.items[j].id)
  /\ [][\A p \in Procs :
          SetWriteOk(p) =>
            /\ file' = JSONStringify(proc[p].reminders)
            /\ \A q \in Procs \ {p} :
                 LET n == Len(proc[q].loaded)
                     final == StoreOf(file')
                 IN  /\ (WroteLast(q) /\ proc[p].loaded = proc[q].loaded)
                          => /\ Len(final) = n + 1
                             /\ \A i \in 1..n : final[i] = proc[q].loaded[i]
                             /\ final[n + 1] = StringifyItem(proc[p].newReminder)
                             /\ Persisted(file', proc[p].newReminder) = 1
                             /\ proc[q].newReminder # proc[p].newReminder
                                  => Persisted(file', proc[q].newReminder) = 0
                     /\ (WroteLast(q) /\ proc[p].loaded = StoreOf(file))
                          => /\ Len(final) = n + 2
                             /\ Persisted(file', proc[q].newReminder) = 1
                             /\ Persisted(file', proc[p].newReminder) = 1
                     /\ (WroteLast(q)
                           /\ (\/ proc[p].loaded = proc[q].loaded
                               \/ proc[p].loaded = StoreOf(file)))
                          => Len(final) \in {n + 1, n + 2}]_vars

\* both processes read the store of length 1, p1 wrote and then p2: the
\* store holds the old item and the reminder of p2, the reminder of p1 is
\* lost
C13_Witness ==
  /\ proc["p1"].cmd = "set" /\ proc["p2"].cmd = "set"
  /\ OutHas(proc["p1"].out, "Reminder Set:")
  /\ OutHas(proc["p2"].out, "Reminder Set:")
  /\ Len(proc["p1"].loaded) = 1
  /\ proc["p1"].loaded = proc["p2"].loaded
  /\ proc["p1"].newReminder.scheduledAt = Null
  /\ proc["p2"].newReminder.scheduledAt = DateOf(1000)
  /\ WroteLast("p2")
  /\ Len(file.items) = 2
  /\ file.items[1].id = 1 /\ file.items[2].id = 2
  /\ Persisted(file, proc["p1"].newReminder) = 0
  /\ Persisted(file, proc["p2"].newReminder) = 1

=============================================================================
